---- MODULE Spec2Model ----
(***************************************************************************)
(* Model of DiscordIpcClient (src/src/ipc_windows.rs): a named-pipe client *)
(* with one owned OS handle, a connect scan over ten pipe slots, a health  *)
(* probe, a write with bounded retry on the "pipe is being closed" error,  *)
(* a single-shot read, a close handshake and a destructor.                 *)
(*                                                                         *)
(* The client is single threaded; every OS call is one step of the model.  *)
(* The environment (the peer and the OS) moves between the steps: pipes    *)
(* appear and vanish, and the peer closes its end of the connected pipe.   *)
(***************************************************************************)
EXTENDS Integers, Sequences, FiniteSets

\* ---------------------------------------------------------------- bounds
\* At most MaxPipes candidate pipes exist at the same time.
MaxPipes == 1
\* Size of the OS handle table: handle values are 1..MaxHandles and a value
\* is handed out again once it has been released.
MaxHandles == 2
\* Longest payload a caller passes to write.
MaxLen == 1

\* ------------------------------------------------------ program constants
\* for i in 0..10
NumSlots == 10
\* let mut retries = 3
InitialRetries == 3
\* self.send(data, 2): the peer's close opcode
CloseOpcode == 2

Slots == 0 .. (NumSlots - 1)
\* Option<HANDLE>: None is 0, Some(h) is h
NoHandle == 0
Handles == 1 .. MaxHandles
PipeSets == {ps \in SUBSET Slots : Cardinality(ps) <= MaxPipes}

\* Payload bytes of a caller's write: the byte strings over one byte value of
\* 1 to MaxLen bytes.
RECURSIVE BytesOfLen(_)
BytesOfLen(n) == IF n = 0 THEN <<>> ELSE <<65>> \o BytesOfLen(n - 1)
Payloads == {BytesOfLen(n) : n \in 1 .. MaxLen}

\* The framing layer's send(payload, opcode) is not part of this file. Its
\* message as one byte string: opcode, payload length, payload.
send(payload, opcode) == <<opcode, Len(payload)>> \o payload
\* A 32-bit value as four little-endian bytes.
LE32(n) == <<n % 256, (n \div 256) % 256, (n \div 65536) % 256,
            (n \div 16777216) % 256>>
\* The header the framing layer writes on its own: opcode and payload
\* length, 32 bits each.
pack(opcode, length) == LE32(opcode) \o LE32(length)
\* What send passes to write, call by call. The framing layer may write
\* nothing, the whole message in one write, or the header and then the
\* payload in two writes.
SendWrites(payload, opcode) ==
    { <<>>,
      <<send(payload, opcode)>>,
      <<pack(opcode, Len(payload)), payload>> }
\* json!({}) serialised: "{}"
EmptyJson == <<123, 125>>

VARIABLES
    connected,      \* self.connected
    pipe_handle,    \* self.pipe_handle (NoHandle = None)
    pipes,          \* OS: the slots at which a pipe exists
    open,           \* OS: the handle values currently open in this process
    peer,           \* OS: state of the pipe behind pipe_handle
    pc,             \* the client's position
    stack,          \* return positions of the calls in progress
    ret,            \* the Result the last returned inner call gave
    retries,        \* write's local `retries`
    data,           \* write's argument `data` (empty outside a write)
    dropHandle,     \* drop's local copy `handle`
    pending,        \* send: the byte strings it has still to pass to write
    op,             \* the public operation in progress or last returned
    lastResult,     \* the Result the last public operation returned
                    \* ("pending" while one is running)
    log,            \* the OS calls (and ensure_connected entries) of `op`
    received,       \* the payloads the peer accepted during `op`
    tried,          \* connect_ipc's loop: the values `i` has taken, in order
    envQuiet,       \* `op` is connect_ipc, and no pipe appeared or vanished
                    \* since it was called
    callConnected,  \* self.connected when `op` was called
    callHandle      \* self.pipe_handle when `op` was called

vars == <<connected, pipe_handle, pipes, open, peer, pc, stack,
          ret, retries, data, dropHandle, pending, op, lastResult, log, received,
          tried, envQuiet, callConnected, callHandle>>

clientVars == <<connected, pipe_handle>>
osVars == <<pipes, open, peer>>

\* ----------------------------------------------------------- OS behaviour
\* WriteFile on a handle whose pipe is in state p.
WriteFileResult(p) ==
    IF p = "live" THEN "ok" ELSE IF p = "closing" THEN "closing" ELSE "other"
\* ReadFile and FlushFileBuffers succeed on a live pipe only.
ReadFileOk(p) == p = "live"
FlushOk(p) == p = "live"

\* ------------------------------------------------------------ connect_ipc
\* for i in 0..10: the first value of `i`
ScanStart == 0

\* ------------------------------------------------------------- call/return
\* Return r from the function in progress: to the caller's position, or to
\* the application when the public operation itself returns.
Return(r) ==
    IF stack = <<>>
    THEN /\ pc' = "idle"
         /\ lastResult' = r
         /\ ret' = "Ok"
         /\ stack' = <<>>
    ELSE /\ pc' = Head(stack)
         /\ stack' = Tail(stack)
         /\ ret' = r
         /\ UNCHANGED lastResult

\* A public operation is called: the per-operation records start afresh.
Call(name) ==
    /\ pc = "idle"
    /\ op' = name
    /\ received' = <<>>
    /\ retries' = 0
    /\ envQuiet' = (name = "connect")
    /\ callConnected' = connected
    /\ callHandle' = pipe_handle

\* A handle value is free for every open the operation may make.
CanOpen == Cardinality(open) < MaxHandles

Init ==
    /\ connected = FALSE
    /\ pipe_handle = NoHandle
    /\ pipes \in PipeSets
    /\ open = {}
    /\ peer = "none"
    /\ pc = "idle"
    /\ stack = <<>>
    /\ ret = "Ok"
    /\ retries = 0
    /\ data = <<>>
    /\ dropHandle = NoHandle
    /\ pending = <<>>
    /\ op = "new"
    /\ lastResult = "Ok"
    /\ log = <<>>
    /\ received = <<>>
    /\ tried = <<>>
    /\ envQuiet = FALSE
    /\ callConnected = FALSE
    /\ callHandle = NoHandle

\* ------------------------------------------------------------ connect_ipc
\* connect_ipc called by the application.
Connect ==
    /\ Call("connect")
    /\ CanOpen
    /\ log' = <<>>
    /\ lastResult' = "pending"
    /\ pc' = "ci_scan"
    /\ data' = <<>>
    /\ UNCHANGED <<clientVars, osVars, stack, ret, dropHandle, pending, tried>>

\* Variant of ConnectScan: the `return` of the Ok arm is missing, so the loop
\* goes on past an open that succeeded.
ConnectScan_NoStop ==
    /\ pc = "ci_scan"
    /\ LET i == ScanStart + Len(tried) IN
       /\ tried' = Append(tried, i)
       /\ IF i \in pipes
          THEN /\ \E h \in Handles \ open :
                    /\ open' = open \cup {h}
                    /\ pipe_handle' = h
               /\ peer' = "live"
               /\ log' = Append(log, "open_ok")
               /\ pc' = IF i + 1 < NumSlots THEN "ci_scan" ELSE "ci_mark"
          ELSE IF i + 1 < NumSlots
          THEN UNCHANGED <<log, pc, pipe_handle, open, peer>>
          ELSE /\ log' = Append(log, "open_fail")
               /\ pc' = "ci_fail"
               /\ UNCHANGED <<pipe_handle, open, peer>>
    /\ UNCHANGED <<connected, pipes, stack, ret, retries, data, dropHandle, pending, op,
                   lastResult, received, envQuiet, callConnected, callHandle>>

\* One pass of for i in 0..10 { match create_pipe_handle(..) { Ok(handle) =>
\* { self.pipe_handle = Some(handle); ... } Err(e) => continue } }: one
\* CreateFileW, on slot i. The pipes may change between two passes. The log
\* gets "open_ok" for the open that succeeded and one "open_fail" for a loop
\* that ran out of slots.
ConnectScan ==
    /\ pc = "ci_scan"
    /\ LET i == ScanStart + Len(tried) IN
       /\ tried' = Append(tried, i)
       /\ IF i \in pipes
          THEN /\ \E h \in Handles \ open :
                    /\ open' = open \cup {h}
                    /\ pipe_handle' = h
               /\ peer' = "live"
               /\ log' = Append(log, "open_ok")
               /\ pc' = "ci_mark"
          ELSE IF i + 1 < NumSlots
          THEN UNCHANGED <<log, pc, pipe_handle, open, peer>>
          ELSE /\ log' = Append(log, "open_fail")
               /\ pc' = "ci_fail"
               /\ UNCHANGED <<pipe_handle, open, peer>>
    /\ UNCHANGED <<connected, pipes, stack, ret, retries, data, dropHandle, pending, op,
                   lastResult, received, envQuiet, callConnected, callHandle>>

\* Variant of ConnectMark: self.connected = true is left out.
ConnectMark_ForgetsFlag ==
    /\ pc = "ci_mark"
    /\ tried' = <<>>
    /\ Return("Ok")
    /\ UNCHANGED <<clientVars, osVars, retries, data, dropHandle, pending, op, log,
                   received, envQuiet, callConnected, callHandle>>

\* self.connected = true; return Ok(())
ConnectMark ==
    /\ pc = "ci_mark"
    /\ connected' = TRUE
    /\ tried' = <<>>
    /\ Return("Ok")
    /\ UNCHANGED <<pipe_handle, osVars, retries, data, dropHandle, pending, op, log,
                   received, envQuiet, callConnected, callHandle>>

\* Variant of ConnectFail: the function falls out of the loop into Ok(()).
ConnectFail_ReturnsOk ==
    /\ pc = "ci_fail"
    /\ tried' = <<>>
    /\ Return("Ok")
    /\ UNCHANGED <<clientVars, osVars, retries, data, dropHandle, pending, op, log,
                   received, envQuiet, callConnected, callHandle>>

\* Err("Could not connect to Discord IPC pipe".into())
ConnectFail ==
    /\ pc = "ci_fail"
    /\ tried' = <<>>
    /\ Return("NoPipeAvailable")
    /\ UNCHANGED <<clientVars, osVars, retries, data, dropHandle, pending, op, log,
                   received, envQuiet, callConnected, callHandle>>

\* ------------------------------------------------------- ensure_connected
\* Variant of is_pipe_valid: the Err arm of the match yields true as well.
is_pipe_valid_ErrIsValid == pipe_handle # NoHandle

\* is_pipe_valid: a zero-length WriteFile on the held handle.
is_pipe_valid == pipe_handle # NoHandle /\ WriteFileResult(peer) = "ok"

\* Variant of EnsureCheck: the condition is on the handle instead of the
\* connected flag, if self.pipe_handle.is_none() || !self.is_pipe_valid().
EnsureCheck_TrustsHandle ==
    /\ pc = "ec_check"
    /\ IF pipe_handle = NoHandle
       THEN /\ log' = Append(log, "ensure")
            /\ pc' = "ec_reset"
            /\ UNCHANGED <<stack, ret, lastResult>>
       ELSE IF is_pipe_valid
       THEN /\ log' = log \o <<"ensure", "probe_ok">>
            /\ Return("Ok")
       ELSE /\ log' = log \o <<"ensure", "probe_fail">>
            /\ pc' = "ec_reset"
            /\ UNCHANGED <<stack, ret, lastResult>>
    /\ UNCHANGED <<clientVars, osVars, retries, data, dropHandle, pending, op, received,
                   tried, envQuiet, callConnected, callHandle>>

\* Variant of EnsureCheck: the operands of || are swapped, so the probe is
\* written before self.connected is looked at.
EnsureCheck_ProbeFirst ==
    /\ pc = "ec_check"
    /\ IF pipe_handle = NoHandle
       THEN /\ log' = Append(log, "ensure")
            /\ pc' = "ec_reset"
            /\ UNCHANGED <<stack, ret, lastResult>>
       ELSE IF ~is_pipe_valid
       THEN /\ log' = log \o <<"ensure", "probe_fail">>
            /\ pc' = "ec_reset"
            /\ UNCHANGED <<stack, ret, lastResult>>
       ELSE IF ~connected
       THEN /\ log' = log \o <<"ensure", "probe_ok">>
            /\ pc' = "ec_reset"
            /\ UNCHANGED <<stack, ret, lastResult>>
       ELSE /\ log' = log \o <<"ensure", "probe_ok">>
            /\ Return("Ok")
    /\ UNCHANGED <<clientVars, osVars, retries, data, dropHandle, pending, op, received,
                   tried, envQuiet, callConnected, callHandle>>

\* if !self.connected || !self.is_pipe_valid() { ... } Ok(())
EnsureCheck ==
    /\ pc = "ec_check"
    /\ IF ~connected
       THEN /\ log' = Append(log, "ensure")
            /\ pc' = "ec_reset"
            /\ UNCHANGED <<stack, ret, lastResult>>
       ELSE IF pipe_handle = NoHandle
       THEN /\ log' = Append(log, "ensure")
            /\ pc' = "ec_reset"
            /\ UNCHANGED <<stack, ret, lastResult>>
       ELSE IF is_pipe_valid
       THEN /\ log' = log \o <<"ensure", "probe_ok">>
            /\ Return("Ok")
       ELSE /\ log' = log \o <<"ensure", "probe_fail">>
            /\ pc' = "ec_reset"
            /\ UNCHANGED <<stack, ret, lastResult>>
    /\ UNCHANGED <<clientVars, osVars, retries, data, dropHandle, pending, op, received,
                   tried, envQuiet, callConnected, callHandle>>

\* Variant of EnsureReset: self.connected = false is left out.
EnsureReset_Skip ==
    /\ pc = "ec_reset"
    /\ pc' = "ec_release"
    /\ UNCHANGED <<clientVars, osVars, stack, ret, retries, data, dropHandle, pending,
                   op, lastResult, log, received, tried, envQuiet,
                   callConnected, callHandle>>

\* self.connected = false
EnsureReset ==
    /\ pc = "ec_reset"
    /\ connected' = FALSE
    /\ pc' = "ec_release"
    /\ UNCHANGED <<pipe_handle, osVars, stack, ret, retries, data,
                   dropHandle, pending, op, lastResult, log, received, tried, envQuiet,
                   callConnected, callHandle>>

\* Variant of EnsureRelease: self.pipe_handle = None is left out.
EnsureRelease_KeepHandle ==
    /\ pc = "ec_release"
    /\ IF pipe_handle # NoHandle
       THEN /\ open' = open \ {pipe_handle}
            /\ log' = Append(log, IF pipe_handle \in open
                                  THEN "release" ELSE "release_bad")
       ELSE UNCHANGED <<open, log>>
    /\ pc' = "ci_scan"
    /\ UNCHANGED <<clientVars, pipes, peer, stack, ret, retries, data,
                   dropHandle, pending, op, lastResult, received, tried, envQuiet,
                   callConnected, callHandle>>

\* if let Some(handle) { CloseHandle(handle) }  self.pipe_handle = None;
\* then self.connect_ipc()?, whose Result is ensure_connected's.
EnsureRelease ==
    /\ pc = "ec_release"
    /\ IF pipe_handle # NoHandle
       THEN /\ open' = open \ {pipe_handle}
            /\ log' = Append(log, IF pipe_handle \in open
                                  THEN "release" ELSE "release_bad")
       ELSE UNCHANGED <<open, log>>
    /\ pipe_handle' = NoHandle
    /\ peer' = "none"
    /\ pc' = "ci_scan"
    /\ UNCHANGED <<connected, pipes, stack, ret, retries, data, dropHandle, pending, op,
                   lastResult, received, tried, envQuiet, callConnected,
                   callHandle>>

\* ------------------------------------------------------------------ write
\* write(data) called by the application: self.ensure_connected()?
Write ==
    /\ Call("write")
    /\ pipe_handle # NoHandle \/ CanOpen
    /\ \E d \in Payloads : data' = d
    /\ log' = <<>>
    /\ lastResult' = "pending"
    /\ pc' = "ec_check"
    /\ stack' = <<"w_ensured">>
    /\ UNCHANGED <<clientVars, osVars, ret, dropHandle, pending, tried>>

\* The `?` after the first ensure_connected, then let mut retries = 3.
WriteEnsured ==
    /\ pc = "w_ensured"
    /\ IF ret # "Ok"
       THEN /\ Return(ret)
            /\ UNCHANGED retries
       ELSE /\ retries' = InitialRetries
            /\ pc' = "w_loop"
            /\ UNCHANGED <<stack, ret, lastResult>>
    /\ UNCHANGED <<clientVars, osVars, data, dropHandle, pending, op, log, received,
                   tried, envQuiet, callConnected, callHandle>>

\* The log entry of a raw WriteFile, and Err(e.into()) for its error e.
WriteEvent(res) ==
    IF res = "ok" THEN "write_ok"
    ELSE IF res = "closing" THEN "write_closing" ELSE "write_other"
WriteFailed(res) ==
    IF res = "closing" THEN "WriteFailed_closing" ELSE "WriteFailed_other"

\* Variant of RetryAllowed: the closing error is retried on the last try too.
RetryAllowed_Always(r) == r > 0

\* Whether a closing error with `r` retries left is retried.
RetryAllowed(r) == r > 1

\* Variant of WriteAttempt: the Ok arm does not return; it uses up a try and
\* goes round the loop again.
WriteAttempt_NoReturn ==
    /\ pc = "w_loop"
    /\ IF retries <= 0
       THEN /\ Return("WriteExhausted")
            /\ retries' = 0
            /\ UNCHANGED <<log, received>>
       ELSE IF pipe_handle = NoHandle
       THEN /\ Return("HandleNotInitialized")
            /\ retries' = 0
            /\ UNCHANGED <<log, received>>
       ELSE LET res == WriteFileResult(peer) IN
            /\ log' = Append(log, WriteEvent(res))
            /\ IF res = "ok"
               THEN /\ received' = Append(received, data)
                    /\ retries' = retries - 1
                    /\ pc' = "w_loop"
                    /\ UNCHANGED <<stack, ret, lastResult>>
               ELSE /\ UNCHANGED received
                    /\ IF res = "closing" /\ RetryAllowed(retries)
                       THEN /\ pc' = "w_retry"
                            /\ UNCHANGED <<stack, ret, lastResult, retries>>
                       ELSE /\ retries' = 0
                            /\ Return(WriteFailed(res))
    /\ UNCHANGED <<clientVars, osVars, data, dropHandle, pending, op, tried,
                   envQuiet, callConnected, callHandle>>

\* Variant of WriteAttempt: the error code is not examined, every failed
\* WriteFile is retried while attempts remain.
WriteAttempt_RetriesAnyError ==
    /\ pc = "w_loop"
    /\ IF retries <= 0
       THEN /\ Return("WriteExhausted")
            /\ retries' = 0
            /\ UNCHANGED <<log, received>>
       ELSE IF pipe_handle = NoHandle
       THEN /\ Return("HandleNotInitialized")
            /\ retries' = 0
            /\ UNCHANGED <<log, received>>
       ELSE LET res == WriteFileResult(peer) IN
            /\ log' = Append(log, WriteEvent(res))
            /\ IF res = "ok"
               THEN /\ received' = Append(received, data)
                    /\ retries' = 0
                    /\ Return("Ok")
               ELSE /\ UNCHANGED received
                    /\ IF RetryAllowed(retries)
                       THEN /\ pc' = "w_retry"
                            /\ UNCHANGED <<stack, ret, lastResult, retries>>
                       ELSE /\ retries' = 0
                            /\ Return(WriteFailed(res))
    /\ UNCHANGED <<clientVars, osVars, data, dropHandle, pending, op, tried,
                   envQuiet, callConnected, callHandle>>

\* One pass of while retries > 0 { ... WriteFile ... }; `retries` ends with
\* the call.
WriteAttempt ==
    /\ pc = "w_loop"
    /\ IF retries <= 0
       THEN /\ Return("WriteExhausted")
            /\ retries' = 0
            /\ UNCHANGED <<log, received>>
       ELSE IF pipe_handle = NoHandle
       THEN /\ Return("HandleNotInitialized")
            /\ retries' = 0
            /\ UNCHANGED <<log, received>>
       ELSE LET res == WriteFileResult(peer) IN
            /\ log' = Append(log, WriteEvent(res))
            /\ IF res = "ok"
               THEN /\ received' = Append(received, data)
                    /\ retries' = 0
                    /\ Return("Ok")
               ELSE /\ UNCHANGED received
                    /\ IF res = "closing" /\ RetryAllowed(retries)
                       THEN /\ pc' = "w_retry"
                            /\ UNCHANGED <<stack, ret, lastResult, retries>>
                       ELSE /\ retries' = 0
                            /\ Return(WriteFailed(res))
    /\ UNCHANGED <<clientVars, osVars, data, dropHandle, pending, op, tried,
                   envQuiet, callConnected, callHandle>>

\* self.connected = false; self.ensure_connected()?
WriteRetry ==
    /\ pc = "w_retry"
    /\ connected' = FALSE
    /\ pc' = "ec_check"
    /\ stack' = <<"w_retried">> \o stack
    /\ UNCHANGED <<pipe_handle, osVars, ret, retries, data,
                   dropHandle, pending, op, lastResult, log, received, tried, envQuiet,
                   callConnected, callHandle>>

\* Variant of WriteRetried: retries -= 1 is left out.
WriteRetried_NoDecrement ==
    /\ pc = "w_retried"
    /\ IF ret # "Ok"
       THEN /\ Return(ret)
            /\ retries' = 0
       ELSE /\ pc' = "w_loop"
            /\ UNCHANGED <<stack, ret, lastResult, retries>>
    /\ UNCHANGED <<clientVars, osVars, data, dropHandle, pending, op, log, received,
                   tried, envQuiet, callConnected, callHandle>>

\* The `?` after the retry's ensure_connected, then retries -= 1; continue
WriteRetried ==
    /\ pc = "w_retried"
    /\ IF ret # "Ok"
       THEN /\ Return(ret)
            /\ retries' = 0
       ELSE /\ retries' = retries - 1
            /\ pc' = "w_loop"
            /\ UNCHANGED <<stack, ret, lastResult>>
    /\ UNCHANGED <<clientVars, osVars, data, dropHandle, pending, op, log, received,
                   tried, envQuiet, callConnected, callHandle>>

\* ------------------------------------------------------------------- read
\* Variant of Read: a failed ReadFile marks the client Disconnected.
Read_FailureDisconnects ==
    /\ Call("read")
    /\ IF pipe_handle = NoHandle
       THEN /\ lastResult' = "HandleNotInitialized"
            /\ log' = <<>>
            /\ UNCHANGED connected
       ELSE IF ReadFileOk(peer)
       THEN /\ lastResult' = "Ok"
            /\ log' = <<"read_ok">>
            /\ UNCHANGED connected
       ELSE /\ lastResult' = "ReadFailed"
            /\ log' = <<"read_fail">>
            /\ connected' = FALSE
    /\ pc' = "idle"
    /\ data' = <<>>
    /\ UNCHANGED <<pipe_handle, osVars, stack, ret, dropHandle, pending, tried>>

\* Variant of Read: ReadFile is called before the handle is looked at.
Read_ReadsFirst ==
    /\ Call("read")
    /\ IF pipe_handle = NoHandle
       THEN /\ lastResult' = "HandleNotInitialized"
            /\ log' = <<"read_fail">>
       ELSE IF ReadFileOk(peer)
       THEN /\ lastResult' = "Ok"
            /\ log' = <<"read_ok">>
       ELSE /\ lastResult' = "ReadFailed"
            /\ log' = <<"read_fail">>
    /\ pc' = "idle"
    /\ data' = <<>>
    /\ UNCHANGED <<clientVars, osVars, stack, ret, dropHandle, pending, tried>>

\* read(buffer): one ReadFile on the held handle.
Read ==
    /\ Call("read")
    /\ IF pipe_handle = NoHandle
       THEN /\ lastResult' = "HandleNotInitialized"
            /\ log' = <<>>
       ELSE IF ReadFileOk(peer)
       THEN /\ lastResult' = "Ok"
            /\ log' = <<"read_ok">>
       ELSE /\ lastResult' = "ReadFailed"
            /\ log' = <<"read_fail">>
    /\ pc' = "idle"
    /\ data' = <<>>
    /\ UNCHANGED <<clientVars, osVars, stack, ret, dropHandle, pending, tried>>

\* ------------------------------------------------------------------ close
\* send, between two of its writes: the `?` on the write that returned, then
\* the next self.write(..), or the return when nothing is left to write.
SendNext ==
    /\ pc = "s_next"
    /\ IF ret # "Ok" \/ pending = <<>>
       THEN /\ Return(ret)
            /\ pending' = <<>>
            /\ UNCHANGED data
       ELSE /\ data' = Head(pending)
            /\ pending' = Tail(pending)
            /\ pc' = "ec_check"
            /\ stack' = <<"w_ensured", "s_next">> \o stack
            /\ UNCHANGED <<ret, lastResult>>
    /\ UNCHANGED <<clientVars, osVars, retries, dropHandle, op, log, received,
                   tried, envQuiet, callConnected, callHandle>>

\* close() called by the application: let _ = self.send(json!({}), 2).
Close ==
    /\ Call("close")
    /\ pipe_handle # NoHandle \/ CanOpen
    /\ pending' \in SendWrites(EmptyJson, CloseOpcode)
    /\ log' = <<>>
    /\ lastResult' = "pending"
    /\ pc' = "s_next"
    /\ stack' = <<"c_flush">>
    /\ data' = <<>>
    /\ UNCHANGED <<clientVars, osVars, ret, dropHandle, tried>>

\* Variant of CloseFlush: the result of send is propagated with `?` instead
\* of being discarded.
CloseFlush_PropagatesSend ==
    /\ pc = "c_flush"
    /\ IF ret # "Ok"
       THEN /\ Return(ret)
            /\ UNCHANGED <<log, connected>>
       ELSE IF pipe_handle # NoHandle /\ ~FlushOk(peer)
       THEN /\ log' = Append(log, "flush_fail")
            /\ Return("FlushFailed")
            /\ UNCHANGED connected
       ELSE /\ log' = IF pipe_handle # NoHandle
                      THEN Append(log, "flush_ok") ELSE log
            /\ connected' = FALSE
            /\ Return("Ok")
    /\ UNCHANGED <<pipe_handle, osVars, retries, data, dropHandle, pending,
                   op, received, tried, envQuiet, callConnected, callHandle>>

\* if let Some(handle) { FlushFileBuffers(handle)? }
\* self.connected = false; Ok(())
CloseFlush ==
    /\ pc = "c_flush"
    /\ IF pipe_handle # NoHandle /\ ~FlushOk(peer)
       THEN /\ log' = Append(log, "flush_fail")
            /\ Return("FlushFailed")
            /\ UNCHANGED connected
       ELSE /\ log' = IF pipe_handle # NoHandle
                      THEN Append(log, "flush_ok") ELSE log
            /\ connected' = FALSE
            /\ Return("Ok")
    /\ UNCHANGED <<pipe_handle, osVars, retries, data, dropHandle, pending,
                   op, received, tried, envQuiet, callConnected, callHandle>>

\* ------------------------------------------------------------------- drop
\* Variant of DropEnd: self.close().unwrap() in place of let _ = self.close().
DropEnd_Unwrap(r) == IF r = "Ok" THEN "dropped" ELSE "panicked"

\* What becomes of the Result of close() in drop: let _ = discards it.
DropEnd(r) == "dropped"

\* drop(): if let Some(handle) = self.pipe_handle { let _ = self.close(); ...
\* The records of the last operation end here; `op` keeps whether the client
\* is dropped after a close() that returned Ok.
Drop ==
    /\ pc = "idle"
    /\ received' = <<>>
    /\ retries' = 0
    /\ envQuiet' = FALSE
    /\ callConnected' = connected
    /\ callHandle' = pipe_handle
    /\ log' = <<>>
    /\ data' = <<>>
    /\ op' = IF op = "close" /\ lastResult = "Ok" THEN "drop_closed" ELSE "drop"
    /\ lastResult' = "pending"
    /\ IF pipe_handle # NoHandle
       THEN /\ dropHandle' = pipe_handle
            /\ pending' \in SendWrites(EmptyJson, CloseOpcode)
            /\ pc' = "s_next"
            /\ stack' = <<"c_flush", "d_release">>
       ELSE /\ pc' = "dropped"
            /\ UNCHANGED <<dropHandle, pending, stack>>
    /\ UNCHANGED <<clientVars, osVars, ret, tried>>

\* ... let _ = CloseHandle(handle); } on drop's own copy of the handle.
DropRelease ==
    /\ pc = "d_release"
    /\ open' = open \ {dropHandle}
    /\ log' = Append(log, IF dropHandle \in open THEN "release"
                          ELSE "release_bad")
    /\ pc' = DropEnd(ret)
    /\ UNCHANGED <<clientVars, pipes, peer, stack, ret, retries, data,
                   dropHandle, pending, op, lastResult, received, tried, envQuiet,
                   callConnected, callHandle>>

\* ------------------------------------------------------------ environment
\* The client reads the pipe set only in connect_ipc's scan, and the state of
\* the connected pipe only in its WriteFile, ReadFile and FlushFileBuffers
\* calls. The environment's moves are taken where their effect is first
\* read: just before such a call, or between two operations.
ReadsPipes == pc \in {"idle", "ci_scan"}
ReadsPeer == pc \in {"idle", "ec_check", "w_loop", "c_flush"}

\* The peer creates a pipe at a free slot.
PipeAppears ==
    /\ ReadsPipes
    /\ \E k \in Slots \ pipes :
          /\ pipes \cup {k} \in PipeSets
          /\ pipes' = pipes \cup {k}
    /\ envQuiet' = FALSE
    /\ UNCHANGED <<clientVars, open, peer, pc, stack, ret, retries, data,
                   dropHandle, pending, op, lastResult, log, received, tried,
                   callConnected, callHandle>>

\* The peer removes a pipe.
PipeVanishes ==
    /\ ReadsPipes
    /\ \E k \in pipes : pipes' = pipes \ {k}
    /\ envQuiet' = FALSE
    /\ UNCHANGED <<clientVars, open, peer, pc, stack, ret, retries, data,
                   dropHandle, pending, op, lastResult, log, received, tried,
                   callConnected, callHandle>>

\* The peer starts closing its end of the connected pipe, or the pipe breaks.
PeerCloses ==
    /\ ReadsPeer
    /\ \/ peer = "live" /\ peer' \in {"closing", "broken"}
       \/ peer = "closing" /\ peer' = "broken"
    /\ UNCHANGED <<clientVars, pipes, open, pc, stack, ret, retries, data,
                   dropHandle, pending, op, lastResult, log, received, tried, envQuiet,
                   callConnected, callHandle>>

ClientStep ==
    \/ Connect \/ ConnectScan \/ ConnectMark \/ ConnectFail
    \/ EnsureCheck \/ EnsureReset \/ EnsureRelease
    \/ Write \/ WriteEnsured \/ WriteAttempt \/ WriteRetry \/ WriteRetried
    \/ Read
    \/ SendNext \/ Close \/ CloseFlush
    \/ Drop \/ DropRelease

Next ==
    \/ Connect \/ ConnectScan \/ ConnectMark \/ ConnectFail
    \/ EnsureCheck \/ EnsureReset \/ EnsureRelease
    \/ Write \/ WriteEnsured \/ WriteAttempt \/ WriteRetry \/ WriteRetried
    \/ Read
    \/ SendNext \/ Close \/ CloseFlush
    \/ Drop \/ DropRelease
    \/ PipeAppears \/ PipeVanishes \/ PeerCloses

Spec == Init /\ [][Next]_vars

\* ================================================================ claims
\* The last OS call of the operation, if any.
LastEvent == IF log = <<>> THEN "none" ELSE log[Len(log)]

\* drop() is running, or has run.
Dropping ==
    \/ pc \in {"d_release", "dropped", "panicked"}
    \/ stack # <<>> /\ stack[Len(stack)] = "d_release"

\* The public operation `name` has returned to the application.
Returned(name) == pc = "idle" /\ op = name
\* The public operation `name` is running or has returned.
InOp(name) == op = name /\ ~Dropping

Count(s, e) == Cardinality({i \in DOMAIN s : s[i] = e})
IsRawWrite(e) == e \in {"write_ok", "write_closing", "write_other"}
IsOsWrite(e) == IsRawWrite(e) \/ e \in {"probe_ok", "probe_fail"}
RawWrites(s) == SelectSeq(s, IsRawWrite)
Ascending(t) == \A i \in DOMAIN t : t[i] = i - 1

\* ------------------------------------------------------------------- C1
\* C1 (as stated): between public operations the client holds no handle if
\* and only if it is Disconnected.
C1_HandleIffConnected ==
    pc = "idle" => (pipe_handle = NoHandle <=> ~connected)

\* C1 (amended): between public operations a client without a handle is
\* Disconnected; a Disconnected client that still holds a handle comes from a
\* close() that returned Ok, and read, a failed connect and a close() that
\* made no connect scan merely keep it so.
C1_NoHandleImpliesDisconnected ==
    pc = "idle" =>
        /\ pipe_handle = NoHandle => ~connected
        /\ (~connected /\ pipe_handle # NoHandle) =>
              \/ op = "close" /\ lastResult = "Ok"
              \/ /\ op \in {"read", "connect"}
                 /\ ~callConnected
                 /\ callHandle = pipe_handle
              \/ /\ op = "close"
                 /\ Count(log, "ensure") = 0
                 /\ ~callConnected
                 /\ callHandle = pipe_handle

C1_Witness ==
    /\ Returned("close")
    /\ lastResult = "Ok"
    /\ ~connected
    /\ pipe_handle # NoHandle

\* ------------------------------------------------------------------- C2
\* The scan has tried the slots ScanStart, ScanStart + 1, .. in this order.
ScannedInOrder ==
    \A j \in DOMAIN tried : tried[j] = ScanStart + j - 1

\* C2: connect tries the slots in ascending order from 0, stops at the first
\* slot whose open succeeds and stores that handle, and opens nothing
\* afterwards; with the pipes unchanged during the call every slot before the
\* opened one has no pipe, so with exactly one pipe, at slot k, connect
\* succeeds on slot k, and it fails only when no pipe exists.
C2_FirstPipeWins ==
    /\ pc \in {"ci_scan", "ci_mark", "ci_fail"} => ScannedInOrder
    /\ pc = "ci_scan" => Len(tried) < NumSlots
    /\ pc = "ci_mark" =>
          /\ tried # <<>> /\ Ascending(tried)
          /\ tried[Len(tried)] \in pipes
          /\ pipe_handle \in open
          /\ LastEvent = "open_ok"
          /\ envQuiet =>
                /\ \A i \in 1 .. (Len(tried) - 1) : tried[i] \notin pipes
                /\ \A k \in Slots : pipes = {k} => tried[Len(tried)] = k
    /\ pc = "ci_fail" =>
          /\ Len(tried) = NumSlots /\ Ascending(tried)
          /\ envQuiet => pipes = {}
    /\ InOp("connect") => Count(log, "open_ok") <= 1
    /\ (Returned("connect") /\ envQuiet) =>
          /\ lastResult = "Ok" <=> pipes # {}
          /\ lastResult = "Ok" => connected /\ pipe_handle \in open

C2_Witness ==
    /\ Returned("connect")
    /\ envQuiet
    /\ pipes = {NumSlots - 1}
    /\ lastResult = "Ok"
    /\ pipe_handle # NoHandle

\* ------------------------------------------------------------------- C3
\* C3 (as stated): a connect that finds no pipe fails with NoPipeAvailable and
\* leaves the client without a handle and Disconnected, whatever its state was.
C3_FailedConnectDisconnects ==
    (Returned("connect") /\ lastResult = "NoPipeAvailable") =>
        ~connected /\ pipe_handle = NoHandle

\* C3 (amended): a connect that finds no pipe fails with NoPipeAvailable and
\* leaves handle and connection state as they were when it was called; a
\* client that had no handle and was Disconnected is so afterwards.
C3_FailedConnectKeepsState ==
    Returned("connect") =>
        /\ (envQuiet /\ pipes = {}) => lastResult = "NoPipeAvailable"
        /\ lastResult = "NoPipeAvailable" =>
              /\ connected = callConnected
              /\ pipe_handle = callHandle
              /\ (callHandle = NoHandle /\ ~callConnected) =>
                    (~connected /\ pipe_handle = NoHandle)

C3_Witness ==
    /\ Returned("connect")
    /\ lastResult = "NoPipeAvailable"
    /\ callHandle = NoHandle
    /\ pipe_handle = NoHandle
    /\ ~connected

\* ------------------------------------------------------------------- C4
\* The first three raw writes of the write call all failed with the closing
\* error (so both reconnections in between succeeded).
ThreeClosings ==
    /\ Len(RawWrites(log)) >= 3
    /\ \A i \in 1 .. 3 : RawWrites(log)[i] = "write_closing"

\* C4 (as stated): after three consecutive closing errors write returns
\* WriteExhausted, having made exactly 3 raw write attempts.
C4_ExhaustedAfterThreeClosings ==
    (Returned("write") /\ ThreeClosings) =>
        /\ lastResult = "WriteExhausted"
        /\ Len(RawWrites(log)) = 3

\* C4 (amended): after three consecutive closing errors write returns
\* WriteFailed carrying the closing error, having made exactly 3 raw write
\* attempts and 2 reconnections; write never returns WriteExhausted.
C4_FailedAfterThreeClosings ==
    /\ lastResult # "WriteExhausted"
    /\ InOp("write") => Len(RawWrites(log)) <= InitialRetries
    /\ (Returned("write") /\ ThreeClosings) =>
          /\ lastResult = "WriteFailed_closing"
          /\ Len(RawWrites(log)) = 3
          /\ Count(log, "open_ok") >= 2
          /\ log[Len(log)] = "write_closing"

C4_Witness ==
    /\ Returned("write")
    /\ ThreeClosings
    /\ lastResult = "WriteFailed_closing"

\* ------------------------------------------------------------------- C5
\* The part of the log that belongs to the write now running: what follows
\* the last WriteFile that succeeded (a write returns on it).
LogOfWrite ==
    LET oks == {i \in DOMAIN log : log[i] = "write_ok"}
        from == IF oks = {} THEN 0
                ELSE CHOOSE i \in oks : \A j \in oks : j <= i
    IN  SubSeq(log, from + 1, Len(log))

\* C5: a closing error on the first raw write and success on the second make
\* write return Ok after exactly 2 raw writes, with exactly one reconnection
\* (one release of the stale handle, one connect scan) in between; every
\* closing error that is retried uses up exactly one of the 3 tries.
C5_RetryOnce ==
    /\ (Returned("write")
          /\ RawWrites(log) = <<"write_closing", "write_ok">>) =>
          /\ lastResult = "Ok"
          /\ LET i == CHOOSE j \in DOMAIN log : log[j] = "write_closing"
             IN  SubSeq(log, i + 1, Len(log)) =
                    <<"ensure", "release", "open_ok", "write_ok">>
    /\ pc = "w_loop" =>
          retries = InitialRetries - Count(LogOfWrite, "write_closing")

C5_Witness ==
    /\ Returned("write")
    /\ RawWrites(log) = <<"write_closing", "write_ok">>
    /\ lastResult = "Ok"

\* ------------------------------------------------------------------- C6
HasOsWrite(s) == \E i \in DOMAIN s : IsOsWrite(s[i])
\* What the operation did before its first WriteFile (probe or raw write).
BeforeFirstOsWrite(s) ==
    LET f == CHOOSE i \in DOMAIN s :
                 IsOsWrite(s[i]) /\ \A j \in 1 .. (i - 1) : ~IsOsWrite(s[j])
    IN  SubSeq(s, 1, f - 1)
\* The first connect scan of the operation failed.
FirstScanFailed(s) ==
    \E i \in DOMAIN s :
        s[i] = "open_fail" /\ \A j \in 1 .. (i - 1) : s[j] # "open_ok"

\* C6: a write called while connected is false runs exactly one
\* ensure_connected, with its one connect scan, before any WriteFile (probe
\* included) is issued; when that ensure_connected fails, write returns its
\* error and no WriteFile is issued at all.
C6_EnsureBeforeWrite ==
    (InOp("write") /\ ~callConnected) =>
        /\ HasOsWrite(log) =>
              /\ Count(BeforeFirstOsWrite(log), "ensure") = 1
              /\ Count(BeforeFirstOsWrite(log), "open_ok") = 1
              /\ Count(BeforeFirstOsWrite(log), "open_fail") = 0
        /\ FirstScanFailed(log) =>
              /\ ~HasOsWrite(log)
              /\ Count(log, "ensure") = 1
              /\ pc = "idle" => lastResult = "NoPipeAvailable"

C6_Witness ==
    /\ Returned("write")
    /\ ~callConnected
    /\ callHandle # NoHandle
    /\ lastResult = "Ok"

\* ------------------------------------------------------------------- C7
IsShutdownCall(e) == IsRawWrite(e) \/ e \in {"flush_ok", "flush_fail"}

\* C7: when the application has closed the client and the client is then
\* dropped, drop does not run the shutdown sequence again: it sends no close
\* message and flushes nothing.
C7_ShutdownOnce ==
    (pc = "dropped" /\ op = "drop_closed") =>
        \A i \in DOMAIN log : ~IsShutdownCall(log[i])

\* ------------------------------------------------------------------- C8
WriteFailures == {"WriteFailed_closing", "WriteFailed_other", "WriteExhausted"}

\* C8 (as stated): a write that returns WriteFailed or WriteExhausted, or a
\* read that returns ReadFailed, leaves the client Disconnected without handle.
C8_FailureDisconnects ==
    (\/ Returned("write") /\ lastResult \in WriteFailures
     \/ Returned("read") /\ lastResult = "ReadFailed") =>
        ~connected /\ pipe_handle = NoHandle

\* C8 (amended): a write that returns WriteFailed leaves the client Connected
\* and holding the handle the failed WriteFile was made on; a read that
\* returns ReadFailed leaves handle and state as they were; the client ends
\* Disconnected with its handle released only when a reconnection inside
\* write fails (NoPipeAvailable).
C8_FailureKeepsHandle ==
    /\ (Returned("write") /\ lastResult \in WriteFailures) =>
          /\ connected
          /\ pipe_handle \in open
          /\ log[Len(log)] \in {"write_closing", "write_other"}
    /\ (Returned("read") /\ lastResult = "ReadFailed") =>
          /\ pipe_handle # NoHandle
          /\ pipe_handle = callHandle
          /\ connected = callConnected
    /\ (Returned("write") /\ lastResult = "NoPipeAvailable") =>
          ~connected /\ pipe_handle = NoHandle

C8_Witness ==
    /\ Returned("write")
    /\ lastResult = "WriteFailed_other"
    /\ connected
    /\ pipe_handle # NoHandle

\* ------------------------------------------------------------------- C9
\* The most writes one send makes.
MostSendWrites ==
    LET lens == {Len(w) : w \in SendWrites(EmptyJson, CloseOpcode)}
    IN  CHOOSE n \in lens : \A m \in lens : m <= n

\* The most OS calls and ensure_connected entries one close() plus the final
\* CloseHandle can make: per write of send one ensure_connected (entry,
\* probe, release, scan), InitialRetries raw writes and a reconnection
\* (entry, release, scan) per retry; then the flush and the release.
DropLogLimit ==
    MostSendWrites * (4 + InitialRetries + 3 * (InitialRetries - 1)) + 2

\* C9: drop, also after close(), never panics and always runs on to its end:
\* whatever close() returns inside it is discarded, every step of it has a
\* next step, and it makes a bounded number of OS calls.
C9_DropNeverPanics ==
    /\ pc # "panicked"
    /\ Dropping =>
          /\ Len(log) <= DropLogLimit
          /\ pc # "dropped" => ENABLED ClientStep

C9_Witness ==
    /\ pc = "dropped"
    /\ op = "drop_closed"
    /\ ret = "FlushFailed"

\* ------------------------------------------------------------------ C10
\* C10: a write that returns Ok delivered its payload by exactly one raw
\* write, the last of the call; failed attempts deliver nothing, so a write
\* that returns an error delivered nothing, and nothing is delivered twice.
C10_SingleDelivery ==
    /\ InOp("write") =>
          /\ Len(received) = Count(log, "write_ok")
          /\ Len(received) <= 1
          /\ \A i \in DOMAIN received : received[i] = data
    /\ Returned("write") =>
          /\ lastResult = "Ok" =>
                /\ received = <<data>>
                /\ log[Len(log)] = "write_ok"
          /\ lastResult # "Ok" => received = <<>>

C10_Witness ==
    /\ Returned("write")
    /\ lastResult = "Ok"
    /\ Count(log, "write_closing") = 2
    /\ received = <<data>>

\* ------------------------------------------------------------------ C11
\* C11: read on a client that holds no handle returns HandleNotInitialized
\* and issues no OS call; no other read returns that error.
C11_ReadWithoutHandle ==
    Returned("read") =>
        /\ callHandle = NoHandle =>
              /\ lastResult = "HandleNotInitialized"
              /\ log = <<>>
        /\ lastResult = "HandleNotInitialized" => callHandle = NoHandle

C11_Witness ==
    /\ Returned("read")
    /\ callHandle = NoHandle
    /\ lastResult = "HandleNotInitialized"
    /\ log = <<>>

\* ------------------------------------------------------------------ C12
\* The probe of the operation's first ensure_connected has just been made.
JustProbed ==
    /\ Len(log) = 2
    /\ log[2] \in {"probe_ok", "probe_fail"}
    /\ pc \in {"w_ensured", "ec_reset"}

\* C12: after a successful connect is_valid holds for as long as the peer
\* has not closed its end; once the peer has closed it, or when no handle is
\* held, is_valid is false; the probe reports what is_valid is and changes
\* neither the connection state nor the handle.
C12_HealthCheck ==
    /\ (Returned("connect") /\ lastResult = "Ok"
          /\ peer \notin {"closing", "broken"}) => is_pipe_valid
    /\ peer \in {"closing", "broken"} => ~is_pipe_valid
    /\ pipe_handle = NoHandle => ~is_pipe_valid
    /\ JustProbed =>
          /\ log[2] = "probe_ok" <=> is_pipe_valid
          /\ log[2] = "probe_ok" <=> pc = "w_ensured"
          /\ connected = callConnected
          /\ pipe_handle = callHandle

C12_Witness ==
    /\ JustProbed
    /\ log[2] = "probe_fail"
    /\ peer = "closing"
    /\ connected

\* ------------------------------------------------------------------ C13
\* C13: CloseHandle is never invoked on a handle that has already been
\* released, in ensure_connected or in Drop.
C13_NoDoubleRelease ==
    \A i \in DOMAIN log : log[i] # "release_bad"

\* ------------------------------------------------------------------ C14
\* C14: the only handle that is open and not released is the one stored in
\* pipe_handle, and after Drop no opened handle remains unreleased.
C14_NoHandleLeak ==
    /\ open \subseteq {pipe_handle}
    /\ pc = "dropped" => open = {}

\* ------------------------------------------------------------------ C15
\* C15: after close() has returned, with success or with a flush failure,
\* the connection state is Disconnected.
C15_CloseDisconnects ==
    Returned("close") => ~connected

\* ------------------------------------------------------------------ C16
\* The close message was not delivered: no WriteFile of the call succeeded.
SendFailed == Count(log, "write_ok") = 0

\* C16: close() returns an error only when the flush of the held handle
\* failed; whatever happened to the close message, the result is Ok or
\* FlushFailed, and with no handle held after the send step it is Ok and
\* nothing is flushed.
C16_CloseErrorOnlyFromFlush ==
    Returned("close") =>
        /\ lastResult \in {"Ok", "FlushFailed"}
        /\ lastResult = "FlushFailed" <=> LastEvent = "flush_fail"
        /\ lastResult = "Ok" /\ pipe_handle # NoHandle => LastEvent = "flush_ok"
        /\ pipe_handle = NoHandle =>
              /\ lastResult = "Ok"
              /\ Count(log, "flush_ok") + Count(log, "flush_fail") = 0

C16_Witness ==
    /\ Returned("close")
    /\ SendFailed
    /\ pipe_handle = NoHandle
    /\ Count(log, "open_fail") > 0
    /\ lastResult = "Ok"

\* ------------------------------------------------------------------ C17
\* C17: a read on a held handle makes exactly one ReadFile and no other OS
\* call, reports its outcome, and leaves the connection state and the handle
\* as they were at the call, whether it succeeds or fails.
C17_ReadOnceNoStateChange ==
    Returned("read") =>
        /\ connected = callConnected
        /\ pipe_handle = callHandle
        /\ callHandle # NoHandle =>
              /\ log \in {<<"read_ok">>, <<"read_fail">>}
              /\ lastResult = "Ok" <=> log = <<"read_ok">>
              /\ lastResult = "ReadFailed" <=> log = <<"read_fail">>

C17_Witness ==
    /\ Returned("read")
    /\ log = <<"read_fail">>
    /\ lastResult = "ReadFailed"
    /\ connected
    /\ pipe_handle # NoHandle

\* ------------------------------------------------------------------ C18
\* C18: a write makes at most 3 WriteFile attempts and at most 3
\* ensure_connected calls, one at entry and one per retried closing error,
\* and never stalls before it returns; a WriteFile failing with an error
\* other than the closing error is the last OS call of the write, which has
\* returned WriteFailed with no reconnection and no further attempt.
C18_BoundedWrite ==
    InOp("write") =>
        /\ Len(RawWrites(log)) <= InitialRetries
        /\ Count(log, "ensure") <= InitialRetries
        /\ Count(log, "ensure") <= 1 + Count(log, "write_closing")
        /\ pc # "idle" => ENABLED ClientStep
        /\ \A i \in DOMAIN log :
              log[i] = "write_other" =>
                  /\ i = Len(log)
                  /\ pc = "idle"
                  /\ lastResult = "WriteFailed_other"

C18_Witness ==
    /\ Returned("write")
    /\ LastEvent = "write_other"
    /\ Count(log, "write_closing") = 1
    /\ Count(log, "ensure") = 2
    /\ lastResult = "WriteFailed_other"

\* ------------------------------------------------------------------ C19
\* C19: in every state, the intermediate states of write, ensure_connected,
\* close and Drop included, a client marked Connected holds a handle; and a
\* write that returned Ok ended on a successful WriteFile and leaves the
\* client Connected with a held, unreleased handle.
C19_ConnectedHoldsHandle ==
    /\ connected => pipe_handle # NoHandle
    /\ (Returned("write") /\ lastResult = "Ok") =>
          /\ connected
          /\ pipe_handle # NoHandle
          /\ pipe_handle \in open
          /\ LastEvent = "write_ok"

C19_Witness ==
    /\ Returned("write")
    /\ lastResult = "Ok"
    /\ Count(log, "write_closing") > 0
    /\ Count(log, "release") > 0
    /\ connected

\* ------------------------------------------------------------------ C20
\* The number of connect scans (pipe opens attempted) of the operation.
Scans(s) == Count(s, "open_ok") + Count(s, "open_fail")

\* C20 as stated: close() opens no pipe, whatever the state of the client.
C20_CloseNeverOpens ==
    InOp("close") => Scans(log) = 0

\* C20 amended: close() opens a pipe only inside an ensure_connected of a
\* write its send makes. It opens none when send writes nothing, and none
\* when it is called on a Connected client, every health probe passes and no
\* write meets a closing error; called on a Disconnected client it runs a
\* connect scan as soon as send calls write. Each write runs at most 3
\* ensure_connected, each with at most one scan.
C20_CloseOpensOnlyToReconnect ==
    InOp("close") =>
        /\ Scans(log) <= Count(log, "ensure")
        /\ Count(log, "ensure") <= MostSendWrites * InitialRetries
        /\ Count(LogOfWrite, "ensure") <= InitialRetries
        /\ (callConnected /\ Count(log, "probe_fail") = 0
              /\ Count(log, "write_closing") = 0) =>
              /\ Scans(log) = 0
              /\ pipe_handle = callHandle
        /\ (~callConnected /\ pc = "idle" /\ Count(log, "ensure") > 0) =>
              Scans(log) >= 1

C20_Witness ==
    /\ Returned("close")
    /\ ~callConnected
    /\ callHandle # NoHandle
    /\ Count(log, "open_ok") = 1
    /\ pipe_handle # NoHandle
    /\ lastResult = "Ok"

====
